---- MODULE Spec2Model ----
(***************************************************************************)
(* Model of tools/eslint-rules/required-modules.js: the ESLint rule that   *)
(* requires a configured list of modules to be loaded by every file.       *)
(*                                                                         *)
(* One rule instance is created per linted file (module.exports(context)). *)
(* The ESLint traversal driver then visits the AST nodes of the file one   *)
(* at a time, calling the handler registered for the node's type (if any), *)
(* and finally fires 'Program:exit' once.                                  *)
(*                                                                         *)
(* JavaScript strings are modelled as sequences of one-character strings,  *)
(* so that String.prototype.trim and path.basename (POSIX flavour) are     *)
(* computed character by character as the run time computes them.         *)
(***************************************************************************)
EXTENDS Integers, Sequences, FiniteSets

VARIABLES
  sourceType,       \* context.parserOptions.sourceType
  requiredModules,  \* context.options (line 15)
  rules,            \* the keys of the handler map returned by the rule
  foundModules,     \* the closure variable foundModules (line 18)
  reports,          \* the context.report calls made so far, in order
  visited,          \* history: the nodes the driver has visited so far
  phase,            \* "traversal" until the driver has fired Program:exit
  peer              \* a second rule instance, when two analyses coexist

vars ==
  <<sourceType, requiredModules, rules, foundModules, reports, visited, phase,
    peer>>

-----------------------------------------------------------------------------
(* Bounds *)

MaxRequired == 2    \* longest configured list of required modules
MaxVisits == 2      \* most AST nodes visited before Program:exit

-----------------------------------------------------------------------------
(* Strings *)

S_empty == <<>>
S_fs == <<"f", "s">>
S_common == <<"c", "o", "m", "m", "o", "n">>
S_index_mjs == <<"i", "n", "d", "e", "x", ".", "m", "j", "s">>
S_dot_fs == <<".", "/">> \o S_fs
S_dot_fs_js == S_dot_fs \o <<".", "j", "s">>
S_up_common == <<".", ".", "/">> \o S_common
S_ws_fs == <<" ">> \o S_fs \o <<"\t">>
S_lib_fs_slash == <<"l", "i", "b", "/">> \o S_fs \o <<"/">>

\* the literal '../common/index.mjs' of line 49
AliasPath == S_up_common \o <<"/">> \o S_index_mjs

S_up_up_common_index == <<".", ".", "/">> \o AliasPath
S_ws_alias == <<" ">> \o AliasPath \o <<" ">>

WhiteSpace == {" ", "\t", "\n"}

Range(s) == {s[i] : i \in 1..Len(s)}

Front(s) == SubSeq(s, 1, Len(s) - 1)

Last(s) == s[Len(s)]

RECURSIVE TrimStart(_)
TrimStart(s) ==
  IF s # <<>> /\ Head(s) \in WhiteSpace THEN TrimStart(Tail(s)) ELSE s

RECURSIVE TrimEnd(_)
TrimEnd(s) ==
  IF s # <<>> /\ Last(s) \in WhiteSpace THEN TrimEnd(Front(s)) ELSE s

\* String.prototype.trim
Trim(s) == TrimEnd(TrimStart(s))

RECURSIVE StripTrailingSlashes(_)
StripTrailingSlashes(s) ==
  IF s # <<>> /\ Last(s) = "/" THEN StripTrailingSlashes(Front(s)) ELSE s

RECURSIVE LastSegment(_)
LastSegment(s) ==
  IF s = <<>> \/ Last(s) = "/" THEN <<>>
  ELSE Append(LastSegment(Front(s)), Last(s))

\* a plausible slip: also drop a trailing '.js' extension
StripJsExt(s) ==
  IF Len(s) > 3 /\ SubSeq(s, Len(s) - 2, Len(s)) = <<".", "j", "s">>
  THEN SubSeq(s, 1, Len(s) - 3) ELSE s

BasenameNoExt(s) == StripJsExt(LastSegment(StripTrailingSlashes(s)))

\* path.basename(str) with one argument: trailing separators are ignored,
\* the result is what follows the last remaining separator
Basename(s) == LastSegment(StripTrailingSlashes(s))

-----------------------------------------------------------------------------
(* JavaScript values *)

JSString(s) == [type |-> "string", value |-> s]
JSNumber(s) == [type |-> "number", value |-> s]
Undefined == [type |-> "undefined", value |-> <<>>]

\* ToBoolean on the values the rule tests: undefined and strings
Truthy(v) == v.type = "string" /\ v.value # <<>>

\* Array.prototype.indexOf(x) !== -1 on an array of strings
Includes(arr, x) == \E i \in 1..Len(arr) : arr[i] = x

RECURSIVE Filter(_, _)
\* requiredModules.filter(m => foundModules.indexOf(m) === -1)
Filter(arr, found) ==
  IF arr = <<>> THEN <<>>
  ELSE IF ~Includes(found, Head(arr))
       THEN <<Head(arr)>> \o Filter(Tail(arr), found)
       ELSE Filter(Tail(arr), found)

-----------------------------------------------------------------------------
(* AST nodes handed over by the traversal driver *)

Literal(v) == [type |-> "Literal", value |-> v]
IdentifierArg == [type |-> "Identifier", value |-> Undefined]

Call(calleeType, calleeName, args) ==
  [type |-> "CallExpression",
   callee |-> [type |-> calleeType, name |-> calleeName],
   arguments |-> args]

Require(path) == Call("Identifier", "require", <<Literal(JSString(path))>>)

Import(path) ==
  [type |-> "ImportDeclaration", source |-> Literal(JSString(path))]

Paths ==
  {AliasPath, S_up_up_common_index, S_ws_alias, S_dot_fs_js, S_dot_fs,
   S_ws_fs, S_up_common, S_empty}

\* import sources: the resolver is the one the require() paths exercise, so
\* the sources cover the alias, a plain path, an untrimmed one and ''
ImportPaths == {AliasPath, S_dot_fs, S_ws_fs, S_empty}

ImportNodes == {Import(p) : p \in ImportPaths}

OddCallNodes ==
  {Call("Identifier", "doRequire", <<Literal(JSString(S_dot_fs_js))>>),
   Call("Identifier", "Require", <<Literal(JSString(S_dot_fs))>>),
   \* module.require('./fs'): a MemberExpression callee has no name
   Call("MemberExpression", "", <<Literal(JSString(S_dot_fs))>>),
   Call("Identifier", "require", <<>>),
   Call("Identifier", "require", <<Literal(JSNumber(<<"5">>))>>),
   Call("Identifier", "require", <<IdentifierArg, Literal(JSString(S_dot_fs))>>),
   Call("Identifier", "require", <<Literal(JSString(S_dot_fs)), IdentifierArg>>)}

CallNodes == {Require(p) : p \in Paths} \cup OddCallNodes

\* node types the rule never registers a handler for
OtherNodes == {[type |-> "VariableDeclaration"]}

ProgramNode == "Program"

-----------------------------------------------------------------------------
(* Configurations *)

ModuleNames == {S_fs, S_common, S_index_mjs, S_empty}

\* schema: an array of strings with uniqueItems
UniqueSeqs(S, n) ==
  UNION {{s \in [1..k -> S] : \A i, j \in 1..k : i # j => s[i] # s[j]}
         : k \in 0..n}

Configs == UniqueSeqs(ModuleNames, MaxRequired)

\* 'module', or anything else ('script' stands for every other value)
SourceTypes == {"module", "script"}

-----------------------------------------------------------------------------
(* The rule *)

isESM_negated(st) == st # "module"

isESM(st) == st = "module"

isString(node) ==
  node.type = "Literal" /\ node.value.type = "string"

isRequireCall_anyIdentifier(node) == node.callee.type = "Identifier"

isRequireCall(node) ==
  node.callee.type = "Identifier" /\ node.callee.name = "require"

getRequiredModuleName_anyBasename(str, required) ==
  IF str = AliasPath THEN JSString(S_common) ELSE JSString(Basename(str))

getRequiredModuleName_noAlias(str, required) ==
  LET value == Basename(str)
  IN IF Includes(required, value) THEN JSString(value) ELSE Undefined

getRequiredModuleName(str, required) ==
  IF str = AliasPath THEN JSString(S_common)
  ELSE LET value == Basename(str)
       IN IF Includes(required, value) THEN JSString(value) ELSE Undefined

getRequiredModuleNameFromCall(node, required) ==
  IF Len(node.arguments) # 0 /\ isString(node.arguments[1])
  THEN getRequiredModuleName(Trim(node.arguments[1].value.value), required)
  ELSE Undefined

\* the state a handler of one rule instance can read and write
Ctx(required, found, reps) ==
  [requiredModules |-> required, foundModules |-> found, reports |-> reps]

\* context.report(node, message, data)
Report(node, moduleName) ==
  [node |-> node,
   message |-> "Mandatory module \"{{moduleName}}\" must be loaded.",
   data |-> [moduleName |-> moduleName]]

ReportAll(node, names) == [i \in 1..Len(names) |-> Report(node, names[i])]

Reverse(s) == [i \in 1..Len(s) |-> s[Len(s) + 1 - i]]

ProgramExit_reversed(ctx, node) ==
  IF Len(ctx.foundModules) < Len(ctx.requiredModules)
  THEN [ctx EXCEPT !.reports =
          @ \o ReportAll(node, Reverse(Filter(ctx.requiredModules, ctx.foundModules)))]
  ELSE ctx

ProgramExit_noFilter(ctx, node) ==
  IF Len(ctx.foundModules) < Len(ctx.requiredModules)
  THEN [ctx EXCEPT !.reports = @ \o ReportAll(node, ctx.requiredModules)]
  ELSE ctx

ProgramExit_noGuard(ctx, node) ==
  [ctx EXCEPT !.reports =
     @ \o ReportAll(node, Filter(ctx.requiredModules, ctx.foundModules))]

\* rules['Program:exit']
ProgramExit(ctx, node) ==
  IF Len(ctx.foundModules) < Len(ctx.requiredModules)
  THEN [ctx EXCEPT !.reports =
          @ \o ReportAll(node, Filter(ctx.requiredModules, ctx.foundModules))]
  ELSE ctx

ImportDeclaration_pushBasename(ctx, node) ==
  [ctx EXCEPT !.foundModules = Append(@, Basename(node.source.value.value))]

\* rules.ImportDeclaration
ImportDeclaration(ctx, node) ==
  LET requiredModuleName ==
        getRequiredModuleName(node.source.value.value, ctx.requiredModules)
  IN IF Truthy(requiredModuleName)
     THEN [ctx EXCEPT !.foundModules = Append(@, requiredModuleName.value)]
     ELSE ctx

CallExpression_overwrite(ctx, node) ==
  IF isRequireCall(node)
  THEN LET requiredModuleName ==
             getRequiredModuleNameFromCall(node, ctx.requiredModules)
       IN IF Truthy(requiredModuleName)
          THEN [ctx EXCEPT !.foundModules = <<requiredModuleName.value>>]
          ELSE ctx
  ELSE ctx

CallExpression_earlyReport(ctx, node) ==
  IF isRequireCall(node)
  THEN LET requiredModuleName ==
             getRequiredModuleNameFromCall(node, ctx.requiredModules)
       IN IF Truthy(requiredModuleName)
          THEN [ctx EXCEPT !.foundModules = Append(@, requiredModuleName.value)]
          ELSE [ctx EXCEPT !.reports = Append(@, Report(ProgramNode, S_empty))]
  ELSE ctx

\* rules.CallExpression
CallExpression(ctx, node) ==
  IF isRequireCall(node)
  THEN LET requiredModuleName ==
             getRequiredModuleNameFromCall(node, ctx.requiredModules)
       IN IF Truthy(requiredModuleName)
          THEN [ctx EXCEPT !.foundModules = Append(@, requiredModuleName.value)]
          ELSE ctx
  ELSE ctx

Rules_bothKinds(required, st) ==
  IF Len(required) = 0 THEN {}
  ELSE {"Program:exit", "ImportDeclaration", "CallExpression"}

Rules_noFastPath(required, st) ==
  {"Program:exit"} \cup
    (IF isESM(st) THEN {"ImportDeclaration"} ELSE {"CallExpression"})

\* the keys of the object module.exports(context) returns
Rules(required, st) ==
  IF Len(required) = 0 THEN {}
  ELSE {"Program:exit"} \cup
         (IF isESM(st) THEN {"ImportDeclaration"} ELSE {"CallExpression"})

\* the handler the driver calls for a node of the given type, if registered
Dispatch(keys, ctx, node) ==
  IF node.type \notin keys THEN ctx
  ELSE IF node.type = "ImportDeclaration" THEN ImportDeclaration(ctx, node)
  ELSE IF node.type = "CallExpression" THEN CallExpression(ctx, node)
  ELSE ctx

RECURSIVE RunVisits(_, _, _)
\* the driver delivering a sequence of nodes to one rule instance
RunVisits(keys, ctx, nodes) ==
  IF nodes = <<>> THEN ctx
  ELSE RunVisits(keys, Dispatch(keys, ctx, Head(nodes)), Tail(nodes))

\* one whole analysis: a fresh rule instance, the visits, then Program:exit
RunFile(required, st, nodes) ==
  LET keys == Rules(required, st)
      ctx == RunVisits(keys, Ctx(required, <<>>, <<>>), nodes)
  IN IF "Program:exit" \in keys THEN ProgramExit(ctx, ProgramNode) ELSE ctx

-----------------------------------------------------------------------------
(* The state machine: rule creation, node visits, end of traversal *)

\* no second instance exists
NoPeer == [phase |-> "absent"]

Init ==
  /\ sourceType \in SourceTypes
  /\ requiredModules \in Configs
  /\ rules = Rules(requiredModules, sourceType)
  /\ foundModules = <<>>
  /\ reports = <<>>
  /\ visited = <<>>
  /\ phase = "traversal"
  /\ peer = NoPeer

Here == Ctx(requiredModules, foundModules, reports)

Visit(node) ==
  /\ phase = "traversal"
  /\ Len(visited) < MaxVisits
  /\ visited' = Append(visited, node)
  /\ LET new == Dispatch(rules, Here, node)
     IN /\ foundModules' = new.foundModules
        /\ reports' = new.reports
        /\ requiredModules' = new.requiredModules
  /\ UNCHANGED <<sourceType, rules, phase, peer>>

VisitImportDeclaration == \E node \in ImportNodes : Visit(node)

VisitCallExpression == \E node \in CallNodes : Visit(node)

VisitOther == \E node \in OtherNodes : Visit(node)

EndTraversal ==
  /\ phase = "traversal"
  /\ phase' = "done"
  /\ LET new == IF "Program:exit" \in rules
                THEN ProgramExit(Here, ProgramNode) ELSE Here
     IN /\ foundModules' = new.foundModules
        /\ reports' = new.reports
        /\ requiredModules' = new.requiredModules
  /\ UNCHANGED <<sourceType, rules, visited, peer>>

Next ==
  \/ VisitImportDeclaration
  \/ VisitCallExpression
  \/ VisitOther
  \/ EndTraversal

Spec == Init /\ [][Next]_vars

-----------------------------------------------------------------------------
(* Two rule instances side by side: module.exports is called once per      *)
(* analysis, with the same options and sourceType here, and the driver      *)
(* delivers nodes to either instance.                                       *)

MaxPairVisits == 2   \* most nodes delivered to each of the two instances

PairNodes ==
  {Require(S_dot_fs), Require(AliasPath), Import(S_dot_fs), Import(AliasPath)}

\* what module.exports(context) sets up: its own foundModules = []
NewInstance(required, st) ==
  [requiredModules |-> required,
   rules |-> Rules(required, st),
   foundModules |-> <<>>,
   reports |-> <<>>,
   visited |-> <<>>,
   phase |-> "traversal"]

PeerCtx == Ctx(peer.requiredModules, peer.foundModules, peer.reports)

FoundModulesOf_moduleLevel(own, pushedByOther) == pushedByOther

\* foundModules is declared inside module.exports (line 18), so the array
\* an instance reads is its own, whatever another instance has pushed
FoundModulesOf(own, pushedByOther) == own

InitTwo ==
  /\ sourceType \in SourceTypes
  /\ requiredModules \in Configs
  /\ rules = Rules(requiredModules, sourceType)
  /\ foundModules = <<>>
  /\ reports = <<>>
  /\ visited = <<>>
  /\ phase = "traversal"
  /\ peer = NewInstance(requiredModules, sourceType)

VisitOwn ==
  \E node \in PairNodes : Len(visited) < MaxPairVisits /\ Visit(node)

VisitPeer ==
  \E node \in PairNodes :
    /\ peer.phase = "traversal"
    /\ Len(peer.visited) < MaxPairVisits
    /\ LET new == Dispatch(peer.rules, PeerCtx, node)
       IN /\ peer' = [peer EXCEPT !.visited = Append(@, node),
                                  !.foundModules = new.foundModules,
                                  !.reports = new.reports]
          /\ foundModules' = FoundModulesOf(foundModules, new.foundModules)
    /\ UNCHANGED <<sourceType, requiredModules, rules, reports, visited, phase>>

EndTraversalPeer ==
  /\ peer.phase = "traversal"
  /\ LET new == IF "Program:exit" \in peer.rules
                THEN ProgramExit(PeerCtx, ProgramNode) ELSE PeerCtx
     IN peer' = [peer EXCEPT !.phase = "done",
                             !.foundModules = new.foundModules,
                             !.reports = new.reports]
  /\ UNCHANGED <<sourceType, requiredModules, rules, foundModules, reports,
                 visited, phase>>

NextTwo ==
  \/ VisitOwn
  \/ EndTraversal
  \/ VisitPeer
  \/ EndTraversalPeer

SpecTwo == InitTwo /\ [][NextTwo]_vars

-----------------------------------------------------------------------------
(* Vocabulary of the properties *)

TypeOK ==
  /\ sourceType \in SourceTypes
  /\ phase \in {"traversal", "done"}
  /\ Len(visited) <= MaxVisits

PathsOK ==
  /\ Basename(S_dot_fs_js) = <<"f", "s", ".", "j", "s">>
  /\ Basename(S_lib_fs_slash) = S_fs
  /\ Basename(S_up_up_common_index) = S_index_mjs
  /\ Basename(<<"/">>) = <<>>
  /\ Trim(S_ws_fs) = S_fs
  /\ Trim(S_ws_alias) = AliasPath

Nodes == ImportNodes \cup CallNodes \cup OtherNodes

FoundSet == Range(foundModules)

ReportedNames == [i \in 1..Len(reports) |-> reports[i].data.moduleName]

\* the required names, in configured order, that are not in FoundModules
MissingModules == SelectSeq(requiredModules, LAMBDA m : m \notin FoundSet)

\* a node of the monitored kind from which a literal path is extracted
MonitoredReference(node) ==
  IF sourceType = "module"
  THEN node.type = "ImportDeclaration"
  ELSE /\ node.type = "CallExpression"
       /\ node.callee.type = "Identifier"
       /\ node.callee.name = "require"
       /\ Len(node.arguments) >= 1
       /\ node.arguments[1].type = "Literal"
       /\ node.arguments[1].value.type = "string"

ReferencePath(node) ==
  IF node.type = "ImportDeclaration"
  THEN node.source.value.value
  ELSE node.arguments[1].value.value

Visits(node) == \E i \in 1..Len(visited) : visited[i] = node

-----------------------------------------------------------------------------
(* C1: after Program:exit of a rule with a non-empty required list, the     *)
(* diagnostics are exactly one 'Mandatory module ... must be loaded.'       *)
(* report, anchored at the Program node, per required name that is not in   *)
(* FoundModules (RequiredModuleSet minus the set of names found).           *)
C1_ReportsAreRequiredMinusFound ==
  (phase = "done" /\ requiredModules # <<>>)
    => reports = ReportAll(ProgramNode, MissingModules)

(* C2: if every required name X is the basename of the path of at least one *)
(* visited reference of the monitored kind, Program:exit emits no           *)
(* diagnostic, whatever else was visited and in whatever order.             *)
C2_AllReferencedThenNoDiagnostics ==
  (/\ phase = "done"
   /\ requiredModules # <<>>
   /\ \A k \in 1..Len(requiredModules) :
        \E i \in 1..Len(visited) :
          /\ MonitoredReference(visited[i])
          /\ Basename(ReferencePath(visited[i])) = requiredModules[k])
    => reports = <<>>

(* C3: duplicates are harmless: a further visit that appends a name already *)
(* present in FoundModules does not change what Program:exit reports.       *)
C3_DuplicatesHarmless ==
  (phase = "traversal" /\ rules # {})
    => \A node \in Nodes :
         LET after == Dispatch(rules, Here, node)
         IN (/\ after.foundModules # foundModules
             /\ Last(after.foundModules) \in FoundSet)
              => ProgramExit(after, ProgramNode).reports
                   = ProgramExit(Here, ProgramNode).reports

(* C4: with an empty required list the rule returns an empty handler map,   *)
(* so nothing is tracked and no diagnostic is ever reported, in either mode.*)
C4_EmptyConfigNoHandlers ==
  requiredModules = <<>>
    => rules = {} /\ foundModules = <<>> /\ reports = <<>>

C4_Witness ==
  /\ requiredModules = <<>>
  /\ phase = "done"
  /\ Visits(Require(S_dot_fs))
  /\ reports = <<>>

(* C5: alias equivalence in call mode: with 'common' required, a traversal  *)
(* containing require("../common/index.mjs") and one containing             *)
(* require("../../common/index.mjs") both get no diagnostic for 'common';   *)
(* with 'index.mjs' required, neither reference satisfies it (a diagnostic  *)
(* for 'index.mjs' is produced).                                            *)
C5_AliasEquivalence ==
  (phase = "done" /\ sourceType # "module" /\ requiredModules # <<>>)
    => \A node \in {Require(AliasPath), Require(S_up_up_common_index)} :
         /\ (Visits(node) /\ Includes(requiredModules, S_common))
              => ~Includes(ReportedNames, S_common)
         /\ (/\ visited # <<>>
             /\ \A i \in 1..Len(visited) : visited[i] = node
             /\ Includes(requiredModules, S_index_mjs))
              => Includes(ReportedNames, S_index_mjs)

C7_Scenario ==
  /\ phase = "done"
  /\ sourceType # "module"
  /\ requiredModules = <<S_common, S_fs>>
  /\ Len(visited) = 2
  /\ Visits(Require(AliasPath))
  /\ Visits(Require(S_dot_fs_js))

(* C7 (as claimed): in the scenario above Program:exit produces zero        *)
(* diagnostics, './fs.js' counting as a reference to 'fs'.                  *)
C7_ScenarioNoDiagnostics == C7_Scenario => reports = <<>>

(* C7 (amended): in the scenario above Program:exit produces exactly one    *)
(* diagnostic, for 'fs': the basename of './fs.js' is 'fs.js', not 'fs'.    *)
C7_ScenarioReportsFs ==
  C7_Scenario => reports = <<Report(ProgramNode, S_fs)>>

C7_Witness == C7_Scenario /\ foundModules = <<S_common>> /\ Len(reports) = 1

(* C8: a CallExpression adds to FoundModules only if its callee is the bare *)
(* identifier 'require' and its first argument exists and is a string       *)
(* literal; further arguments are not inspected; with required = ["fs"]     *)
(* and only doRequire("./fs.js") visited, exactly one diagnostic, for 'fs', *)
(* is produced.                                                             *)
C8_OnlyRequireOfStringLiteralCounts ==
  [][/\ \A node \in CallNodes :
          (visited' = Append(visited, node) /\ foundModules' # foundModules)
            => /\ node.callee.type = "Identifier"
               /\ node.callee.name = "require"
               /\ Len(node.arguments) >= 1
               /\ node.arguments[1].type = "Literal"
               /\ node.arguments[1].value.type = "string"
     /\ (/\ visited' = Append(visited,
              Call("Identifier", "require",
                   <<Literal(JSString(S_dot_fs)), IdentifierArg>>))
         /\ sourceType # "module"
         /\ Includes(requiredModules, S_fs))
          => foundModules' = Append(foundModules, S_fs)
     /\ (/\ phase' = "done"
         /\ sourceType # "module"
         /\ requiredModules = <<S_fs>>
         /\ visited = <<Call("Identifier", "doRequire",
                             <<Literal(JSString(S_dot_fs_js))>>)>>)
          => reports' = <<Report(ProgramNode, S_fs)>>]_vars

C8_Witness ==
  /\ phase = "done"
  /\ sourceType # "module"
  /\ requiredModules = <<S_fs>>
  /\ visited = <<Call("Identifier", "doRequire",
                      <<Literal(JSString(S_dot_fs_js))>>)>>
  /\ ReportedNames = <<S_fs>>

Position(arr, x) == CHOOSE k \in 1..Len(arr) : arr[k] = x

(* C9: the diagnostics of Program:exit are in the order the missing names   *)
(* have in the configured required list, whatever the order of the visits.  *)
C9_ReportsFollowConfiguredOrder ==
  phase = "done"
    => /\ \A i \in 1..Len(reports) :
            Includes(requiredModules, ReportedNames[i])
       /\ \A i, j \in 1..Len(reports) :
            i < j => Position(requiredModules, ReportedNames[i])
                       < Position(requiredModules, ReportedNames[j])

C9_Witness ==
  /\ phase = "done"
  /\ Len(reports) = 2
  /\ foundModules # <<>>
  /\ ReportedNames = requiredModules

(* C10: no diagnostic is reported by an ImportDeclaration or CallExpression *)
(* visit: before Program:exit has run there are no diagnostics, and the     *)
(* reports change only in the Program:exit step.                            *)
C10_NoReportBeforeExit ==
  /\ [](phase = "traversal" => reports = <<>>)
  /\ [][reports' # reports => (phase = "traversal" /\ phase' = "done")]_vars

C10_Witness ==
  /\ phase = "traversal"
  /\ rules # {}
  /\ Len(visited) = 2
  /\ Len(foundModules) = 1
  /\ reports = <<>>

ImportKind == "ImportDeclaration"
CallKind == "CallExpression"

(* C11 (as claimed): for every configuration and file mode the handler map  *)
(* contains 'Program:exit' and exactly one of ImportDeclaration (sourceType *)
(* 'module') or CallExpression (any other sourceType), never both.          *)
C11_AlwaysExitAndOneKind ==
  /\ "Program:exit" \in rules
  /\ (sourceType = "module") => (ImportKind \in rules /\ CallKind \notin rules)
  /\ (sourceType # "module") => (CallKind \in rules /\ ImportKind \notin rules)

(* C11 (amended): for every non-empty configuration and file mode the       *)
(* handler map is exactly 'Program:exit' plus ImportDeclaration (sourceType *)
(* 'module') or CallExpression (any other sourceType), never both; for the  *)
(* empty configuration it is empty.                                         *)
C11_NonEmptyConfigExitAndOneKind ==
  /\ requiredModules # <<>>
       => rules = {"Program:exit",
                   IF sourceType = "module" THEN ImportKind ELSE CallKind}
  /\ requiredModules = <<>> => rules = {}

C11_Witness ==
  /\ requiredModules # <<>>
  /\ sourceType = "module"
  /\ rules = {"Program:exit", ImportKind}
  /\ phase = "done"
  /\ Len(visited) >= 1

\* the node belongs to the import syntax that sourceType did not select
UnselectedSyntax(node) ==
  \/ sourceType = "module" /\ node.type = CallKind
  \/ sourceType # "module" /\ node.type = ImportKind

(* C12: mode exclusivity: in module mode a require() call never changes     *)
(* FoundModules, in call mode an import declaration never does; a file      *)
(* whose references are all of the unselected syntax has every required     *)
(* module reported.                                                         *)
C12_ModeExclusivity ==
  [][/\ \A node \in Nodes :
          (visited' = Append(visited, node) /\ UnselectedSyntax(node))
            => (foundModules' = foundModules /\ reports' = reports)
     /\ (/\ phase' = "done"
         /\ requiredModules # <<>>
         /\ \A i \in 1..Len(visited) : UnselectedSyntax(visited[i]))
          => reports' = ReportAll(ProgramNode, requiredModules)]_vars

C12_Witness ==
  /\ phase = "done"
  /\ sourceType = "module"
  /\ requiredModules = <<S_fs>>
  /\ visited = <<Require(S_dot_fs), Require(S_dot_fs)>>
  /\ ReportedNames = <<S_fs>>

\* the string a handler hands to the resolver for a monitored reference:
\* the require() argument trimmed, the import source as written
ResolverInput(node) ==
  IF node.type = ImportKind
  THEN ReferencePath(node)
  ELSE Trim(ReferencePath(node))

\* a step in which the driver visits this node
VisitStep(node) == visited' = Append(visited, node)

(* C14: in both modes the path is trimmed before the alias comparison and   *)
(* the basename lookup: a reference whose path is a required basename or    *)
(* the alias path surrounded by whitespace resolves to the same name as the *)
(* trimmed path, for import sources as well as for require() arguments.     *)
C14_TrimmedInBothModes ==
  [][\A node \in Nodes :
       (VisitStep(node) /\ rules # {} /\ MonitoredReference(node))
         => LET name == getRequiredModuleName(Trim(ReferencePath(node)),
                                              requiredModules)
            IN Truthy(name)
                 => foundModules' = Append(foundModules, name.value)]_vars

(* C15: every visit of a monitored reference for which the resolver yields  *)
(* a name (the alias 'common', or a basename that is a member of the        *)
(* required list, the empty string included) appends exactly that name once *)
(* to the end of FoundModules.                                              *)
C15_EveryYieldIsAppended ==
  [][\A node \in Nodes :
       (VisitStep(node) /\ rules # {} /\ MonitoredReference(node))
         => LET name == getRequiredModuleName(ResolverInput(node),
                                              requiredModules)
            IN name.type = "string"
                 => foundModules' = Append(foundModules, name.value)]_vars

IsPrefix(s, t) == Len(s) <= Len(t) /\ SubSeq(t, 1, Len(s)) = s

(* C16: FoundModules is empty when the checker is created, is append-only,  *)
(* is modified only by the visit callbacks and never by Program:exit, and   *)
(* each of its elements is a name the resolver produced for a reference     *)
(* node already visited.                                                    *)
C16_FoundModulesAppendOnly ==
  /\ [](visited = <<>> => foundModules = <<>>)
  /\ [](\A k \in 1..Len(foundModules) :
          \E i \in 1..Len(visited) :
            /\ MonitoredReference(visited[i])
            /\ getRequiredModuleName(ResolverInput(visited[i]),
                                     requiredModules)
                 = JSString(foundModules[k]))
  /\ [][/\ IsPrefix(foundModules, foundModules')
        /\ foundModules' # foundModules
             => /\ phase' = "traversal"
                /\ Len(foundModules') = Len(foundModules) + 1
                /\ \E node \in ImportNodes \cup CallNodes : VisitStep(node)
        /\ phase' = "done" => foundModules' = foundModules]_vars

C16_Witness ==
  /\ phase = "done"
  /\ Len(foundModules) = 2
  /\ sourceType = "module"
  /\ foundModules[1] # foundModules[2]

(* C17 (as claimed): a visit of a monitored node whose literal path is not  *)
(* the alias path and whose basename is not a member of the required list   *)
(* leaves FoundModules and the required list unchanged and emits no         *)
(* diagnostic; no callback modifies the required list.                      *)
C17_UnmatchedLiteralPathIgnored ==
  [][/\ requiredModules' = requiredModules
     /\ \A node \in Nodes :
          (/\ VisitStep(node)
           /\ rules # {}
           /\ MonitoredReference(node)
           /\ ReferencePath(node) # AliasPath
           /\ ~Includes(requiredModules, Basename(ReferencePath(node))))
            => (foundModules' = foundModules /\ reports' = reports)]_vars

(* C17 (amended): the same, the literal path being taken as the handler     *)
(* passes it to the resolver: the require() argument after trimming, the    *)
(* import source as written.                                                *)
C17_UnmatchedResolverInputIgnored ==
  [][/\ requiredModules' = requiredModules
     /\ \A node \in Nodes :
          (/\ VisitStep(node)
           /\ rules # {}
           /\ MonitoredReference(node)
           /\ ResolverInput(node) # AliasPath
           /\ ~Includes(requiredModules, Basename(ResolverInput(node))))
            => (foundModules' = foundModules /\ reports' = reports)]_vars

C17_Witness ==
  /\ phase = "done"
  /\ sourceType # "module"
  /\ requiredModules = <<S_fs>>
  /\ visited = <<Require(S_dot_fs_js), Require(S_up_up_common_index)>>
  /\ foundModules = <<>>
  /\ ReportedNames = <<S_fs>>

Bijections(n) ==
  {f \in [1..n -> 1..n] : \A i, j \in 1..n : i # j => f[i] # f[j]}

Permuted(s, f) == [i \in 1..Len(s) |-> s[f[i]]]

(* C18: visit-order independence: a traversal of the same nodes in any      *)
(* other order, in the same mode and with the same required list, ends with *)
(* the same sequence of diagnostics.                                        *)
C18_VisitOrderIndependent ==
  phase = "done"
    => \A f \in Bijections(Len(visited)) :
         RunFile(requiredModules, sourceType, Permuted(visited, f)).reports
           = reports

C18_Witness ==
  /\ phase = "done"
  /\ sourceType # "module"
  /\ requiredModules = <<S_fs, S_common>>
  /\ visited = <<Require(S_dot_fs), Require(S_up_up_common_index)>>
  /\ ReportedNames = <<S_common>>

(* C19: after Program:exit every reported name is a member of the required  *)
(* list and absent from FoundModules, no name is reported twice, and there  *)
(* are at most as many diagnostics as required names.                       *)
C19_VerdictBounds ==
  phase = "done"
    => /\ \A i \in 1..Len(reports) :
            /\ Includes(requiredModules, ReportedNames[i])
            /\ ~Includes(foundModules, ReportedNames[i])
       /\ \A i, j \in 1..Len(reports) :
            i # j => ReportedNames[i] # ReportedNames[j]
       /\ Len(reports) <= Len(requiredModules)

C19_Witness ==
  /\ phase = "done"
  /\ Len(requiredModules) = 2
  /\ Len(foundModules) = 1
  /\ Includes(requiredModules, foundModules[1])
  /\ Len(reports) = 1

(* C20: length guard: Program:exit reports the missing modules only when    *)
(* FoundModules has strictly fewer entries (duplicates and alias hits       *)
(* counted) than the required list; with at least as many entries it emits  *)
(* no diagnostic.                                                           *)
C20_LengthGuard ==
  (phase = "done" /\ rules # {})
    => IF Len(foundModules) < Len(requiredModules)
       THEN ReportedNames = MissingModules
       ELSE reports = <<>>

C20_Witness ==
  /\ phase = "done"
  /\ requiredModules = <<S_fs, S_common>>
  /\ foundModules = <<S_fs, S_fs>>
  /\ MissingModules = <<S_common>>
  /\ reports = <<>>

(* C13: determinism and instance isolation: two independent instances with  *)
(* the same required list, the same mode and the same sequence of node      *)
(* visits emit identical diagnostic sequences, and a visit delivered to one *)
(* instance never changes the FoundModules or diagnostics of the other.     *)
C13_DeterministicAndIsolated ==
  /\ []((phase = "done" /\ peer.phase = "done" /\ peer.visited = visited)
          => peer.reports = reports)
  /\ [][/\ peer.visited' # peer.visited
             => (foundModules' = foundModules /\ reports' = reports)
        /\ visited' # visited
             => (/\ peer.foundModules' = peer.foundModules
                 /\ peer.reports' = peer.reports)]_vars

C13_Witness ==
  /\ phase = "done"
  /\ peer.phase = "done"
  /\ sourceType # "module"
  /\ requiredModules = <<S_fs, S_index_mjs>>
  /\ visited = <<Require(AliasPath)>>
  /\ peer.visited = visited
  /\ ReportedNames = <<S_fs, S_index_mjs>>
  /\ peer.reports = reports

====
